---- MODULE Spec2Model ----
(***************************************************************************)
(* Model of package logger (src/logger.go): the destination multiplexer    *)
(* (console, custom writer, io.Pipe mirror behind a log.Logger), the       *)
(* mirror life cycle, and the named-channel registry with its drop-oldest  *)
(* broadcast.  Emitters, configuration callers and consumers are separate  *)
(* goroutines; every channel operation, lock acquisition and target write  *)
(* is one step.                                                            *)
(***************************************************************************)
EXTENDS Integers, Sequences, FiniteSets, TLC

\* ---------------------------------------------------------------- bounds
MaxMsgs == 3            \* emissions in one run
MuxMsgs == 2            \* emissions in one run of the multiplexer specification
MaxCfgOps == 3          \* SetOutput/GetReaderCopy/RemoveReaderCopy calls in one run
LineLen == 2            \* bytes of one text line
ReadBuf == 2            \* bytes a mirror consumer asks for in one Read
MaxChans == 2           \* channels created in one run
MaxCap == 2             \* largest BufferSize a caller asks for
MaxRegOps == 3          \* subscribe/unsubscribe/SetChannelBufferSize calls in one run
LevelMsgs == 2          \* emissions in one run of the specification of the levels
CfgMsgs == 2            \* emissions in one run of the specification of the setters
MaxNameOps == 2         \* SetProductName calls in one run

\* ------------------------------------------------------ program constants
DefaultBufferSize == 100

Emitters == {"e1", "e2"}    \* goroutines calling the emission functions
Cfgs == {"c1"}              \* goroutines calling SetOutput/GetReaderCopy/RemoveReaderCopy
Sinks == {1, 2}             \* custom writers handed to SetOutput (0 is nil)
Names == {"a", "b"}         \* subscription names in use
Setters == {"s1", "s2"}     \* goroutines calling SetProductName
ProductNames == {"p", "q"}  \* names handed to SetProductName
LevelDebug == "DEBUG"
LevelInfo == "INFO"
LevelWarn == "WARN"
LevelError == "ERROR"
LevelFatal == "FATAL"

VARIABLES
    \* package variables of the multiplexer
    customWriter,   \* 0 = nil, else the sink handed to SetOutput
    activeReader,   \* 0 = nil, else the id of the pipe whose writer is installed
    multiWriter,    \* sequence of targets built by updateMultiWriter
    loggerOut,      \* the out field of the log.Logger (set by logger.SetOutput)
    writerMutex,    \* "free", else the configuration goroutine holding it
    outMu,          \* "free", else the emitter holding the log.Logger mutex
    pipes,          \* pipes[g]: the pipe made by the g-th successful GetReaderCopy
    \* what the destinations and the consumers have received
    console,        \* lines written to os.Stdout
    sinkLog,        \* sinkLog[s]: lines accepted by custom writer s
    pipeRead,       \* pipeRead[g]: bytes read by the consumer of pipe g
    pipeEOF,        \* pipeEOF[g]: the consumer of pipe g has seen end-of-stream
    \* package variables of the channel registry
    logChannels,    \* logChannels[name]: 0 = not registered, else channel id
    chans,          \* chans[id] = [cap, buf, closed]
    bufferSize,     \* default capacity
    chanRecv,       \* chanRecv[id]: records received through the handle of id
    \* emitters
    pc, cur, todo, curName, wt, wi, rem,
    \* configuration goroutines
    cpc, cop, cret, cclosed, ncfg, nreg,
    rcall,          \* the last call of a registry function and what it returned
    \* the product name and the callers of the unlocked configuration calls
    productName,    \* the string header of productName: data pointer and length
    loggerPrefix,   \* the prefix of the log.Logger (set by logger.SetPrefix)
    npc, nname,     \* goroutines inside SetProductName and the name they set
    gcall,          \* the GetLogChannel call that has read bufferSize
    \* process and history
    alive, nextMsg, emitted, phase, hist

muxVars == <<customWriter, activeReader, multiWriter, loggerOut, writerMutex,
             outMu, pipes>>
destVars == <<console, sinkLog, pipeRead, pipeEOF>>
regVars == <<logChannels, chans, bufferSize, chanRecv>>
emitVars == <<pc, cur, todo, curName, wt, wi, rem>>
cfgVars == <<cpc, cop, cret, cclosed, ncfg, nreg, rcall>>
nameVars == <<productName, loggerPrefix, npc, nname, gcall>>
ghostVars == <<alive, nextMsg, emitted, phase, hist>>
vars == <<muxVars, destVars, regVars, emitVars, cfgVars, nameVars, ghostVars>>

\* ------------------------------------------------------------ helpers
Max(a, b) == IF a > b THEN a ELSE b
Min(a, b) == IF a < b THEN a ELSE b
Range(s) == {s[i] : i \in 1..Len(s)}
LastK(s, k) == SubSeq(s, Max(1, Len(s) - k + 1), Len(s))

ConsoleTarget == [kind |-> "console", id |-> 0]
CustomTarget(s) == [kind |-> "custom", id |-> s]
PipeTarget(g) == [kind |-> "pipe", id |-> g]

\* A record handed to the channels and the text line handed to the logger.
\* A Go string is a data pointer and a length; StringOf(x) is the string x,
\* a header with the pointer of one string and the length of another is what
\* an unsynchronised read can see while the string is being assigned.
StringOf(x) == [ptr |-> x, len |-> x]
LogEntry(m, level, stack, prefix) ==
    [id |-> m, level |-> level, stack |-> stack, prefix |-> prefix]
\* The text handed to Printf; the logger puts its prefix in front of it.
TextLine(m, level, trace) ==
    [id |-> m, level |-> level, trace |-> trace, prefix |-> ""]
NoCur == [entry |-> LogEntry(0, "", FALSE, StringOf("")),
          line |-> TextLine(0, "", FALSE)]
NoGet == [name |-> "", size |-> 0]

\* Byte j of a text line, as it travels through the pipe.
LineByte(line, j) == [line |-> line, j |-> j]
LineBytes(line, from, to) == [i \in 1..(to - from + 1) |-> LineByte(line, from + i - 1)]

\* History of emission m, recorded as the emission proceeds.
NoHist == [seq |-> 0,              \* its place among the broadcasts begun
           returned |-> FALSE,     \* the emission call has returned
           mirrorAtCall |-> 0,     \* the mirror installed and open at the call
           goneAtWrite |-> {},     \* mirrors released or replaced before Printf
           targets |-> <<>>,       \* the writer the logger held for this line
           rejected |-> FALSE,     \* the custom writer returned an error
           cut |-> FALSE,          \* the mirror was closed before the write returned
           openAtReturn |-> FALSE] \* mirrorAtCall was still open at the return

\* The emissions whose broadcast has taken the read lock, and the place the
\* next broadcast to begin will have.
Began == {m \in 1..MaxMsgs : hist[m].seq # 0}
NextRange == Cardinality(Began) + 1
Place(m) == hist[m].seq

NewPipe(born) == [closed |-> FALSE, installed |-> FALSE, gone |-> "no", born |-> born]
\* A channel made by make(chan LogEntry, cap) for a name; since and until
\* are the places of the first broadcast begun after it was registered and
\* after it was removed.
NewChan(name, cap) ==
    [name |-> name, cap |-> cap, buf |-> <<>>, closed |-> FALSE,
     since |-> NextRange, until |-> 0]

\* A registry call: hit says the name was registered when it was called,
\* again that the call before it was the same function on the same name.
NoCall == [op |-> "none", name |-> "", size |-> 0, ret |-> 0,
           hit |-> FALSE, again |-> FALSE]
Call(op, name, size, ret) ==
    [op |-> op, name |-> name, size |-> size, ret |-> ret,
     hit |-> name \in Names /\ logChannels[name] # 0,
     again |-> rcall.op = op /\ rcall.name = name]

Init ==
    /\ customWriter = 0
    /\ activeReader = 0
    /\ multiWriter = <<ConsoleTarget>>
    /\ loggerOut = <<ConsoleTarget>>
    /\ writerMutex = "free"
    /\ outMu = "free"
    /\ pipes = <<>>
    /\ console = <<>>
    /\ sinkLog = [s \in Sinks |-> <<>>]
    /\ pipeRead = <<>>
    /\ pipeEOF = <<>>
    /\ logChannels = [n \in Names |-> 0]
    /\ chans = <<>>
    /\ bufferSize = DefaultBufferSize
    /\ chanRecv = <<>>
    /\ pc = [e \in Emitters |-> "idle"]
    /\ cur = [e \in Emitters |-> NoCur]
    /\ todo = [e \in Emitters |-> {}]
    /\ curName = [e \in Emitters |-> ""]
    /\ wt = [e \in Emitters |-> <<>>]
    /\ wi = [e \in Emitters |-> 0]
    /\ rem = [e \in Emitters |-> 0]
    /\ cpc = [c \in Cfgs |-> "idle"]
    /\ cop = [c \in Cfgs |-> "none"]
    /\ cret = [c \in Cfgs |-> "none"]
    /\ cclosed = [c \in Cfgs |-> 0]
    /\ ncfg = 0
    /\ nreg = 0
    /\ rcall = NoCall
    /\ productName = StringOf("")
    /\ loggerPrefix = ""
    /\ npc = [s \in Setters |-> "idle"]
    /\ nname = [s \in Setters |-> ""]
    /\ gcall = NoGet
    /\ alive = "running"
    /\ nextMsg = 1
    /\ emitted = <<>>
    /\ phase = <<>>
    /\ hist = [m \in 1..MaxMsgs |-> NoHist]

\* ------------------------------------------------------ channel registry
\* A range over the map that stops after its first entry.
RegisteredFirst == IF logChannels["a"] # 0 THEN {"a"}
                   ELSE {n \in Names : logChannels[n] # 0}
Registered == {n \in Names : logChannels[n] # 0}
InBroadcast(e) == pc[e] \in {"bcast", "drop", "retry"}
NoReader == \A e \in Emitters : ~InBroadcast(e)

\* SetChannelBufferSize: a size <= 0 is replaced by the default value.
NormalSize(size) == IF size <= 0 THEN DefaultBufferSize ELSE size

SetChannelBufferSize(size) ==
    /\ alive = "running"
    /\ nreg < MaxRegOps
    /\ nreg' = nreg + 1
    /\ bufferSize' = NormalSize(size)
    /\ rcall' = Call("SetChannelBufferSize", "", size, 0)
    /\ UNCHANGED <<nameVars, muxVars, destVars, logChannels, chans, chanRecv, emitVars,
                   cpc, cop, cret, cclosed, ncfg, ghostVars>>

\* A subscribe that gives an existing channel the capacity it is asked for.
SubscribedResized(name, size) ==
    IF logChannels[name] # 0
    THEN [map |-> logChannels,
          chs |-> [chans EXCEPT ![logChannels[name]].cap = size]]
    ELSE [map |-> [logChannels EXCEPT ![name] = Len(chans) + 1],
          chs |-> Append(chans, NewChan(name, size))]

\* The registry after GetLogChannelWithConfig(name, size): an existing name
\* keeps its channel, a new name gets a channel made with the given size.
Subscribed(name, size) ==
    IF logChannels[name] # 0
    THEN [map |-> logChannels, chs |-> chans]
    ELSE [map |-> [logChannels EXCEPT ![name] = Len(chans) + 1],
          chs |-> Append(chans, NewChan(name, size))]

\* make(chan LogEntry, size) panics when size is negative.
MakePanics(size) == size < 0

\* GetLogChannelWithConfig from channelsMutex.Lock to its return.
GetLogChannelWithConfigLocked(name, size) ==
    /\ alive = "running"
    /\ nreg < MaxRegOps
    /\ NoReader
    /\ logChannels[name] = 0 => Len(chans) < MaxChans
    /\ nreg' = nreg + 1
    /\ IF logChannels[name] = 0 /\ MakePanics(size)
       THEN /\ alive' = "panicked"
            /\ rcall' = Call("GetLogChannelWithConfig", name, size, 0)
            /\ UNCHANGED <<logChannels, chans, chanRecv, emitted, phase>>
       ELSE /\ logChannels' = Subscribed(name, size).map
            /\ chans' = Subscribed(name, size).chs
            /\ rcall' = Call("GetLogChannelWithConfig", name, size,
                             Subscribed(name, size).map[name])
            /\ IF logChannels[name] = 0
               THEN /\ chanRecv' = Append(chanRecv, <<>>)
                    /\ emitted' = Append(emitted, <<>>)
                    /\ phase' = Append(phase, "fill")
               ELSE UNCHANGED <<chanRecv, emitted, phase>>
            /\ UNCHANGED alive
    /\ UNCHANGED <<muxVars, destVars, bufferSize, emitVars,
                   cpc, cop, cret, cclosed, ncfg, nextMsg, hist>>

GetLogChannelWithConfig(name, size) ==
    /\ gcall' = gcall
    /\ UNCHANGED <<productName, loggerPrefix, npc, nname>>
    /\ GetLogChannelWithConfigLocked(name, size)

\* GetLogChannel builds its LogChannelConfig: bufferSize is read before any
\* lock is taken.
GetLogChannel(name) ==
    /\ alive = "running"
    /\ nreg < MaxRegOps
    /\ gcall = NoGet
    /\ gcall' = [name |-> name, size |-> bufferSize]
    /\ UNCHANGED <<muxVars, destVars, regVars, emitVars, cfgVars,
                   productName, loggerPrefix, npc, nname, ghostVars>>

\* GetLogChannel calls GetLogChannelWithConfig with the size it has read.
GetLogChannelCall ==
    /\ gcall # NoGet
    /\ gcall' = NoGet
    /\ UNCHANGED <<productName, loggerPrefix, npc, nname>>
    /\ GetLogChannelWithConfigLocked(gcall.name, gcall.size)

\* ---------------------------------------------------------- product name
GetPrefix == productName

\* The two words of a string header, and the other one of the two.
Words == {"ptr", "len"}
Other(w) == IF w = "ptr" THEN "len" ELSE "ptr"

\* SetProductName: the assignment to productName stores the data pointer
\* and the length of the string one after the other, with no lock held and
\* in an order the language leaves open; npc[s] is the word still to store.
SetProductName(s, name) ==
    /\ alive = "running"
    /\ npc[s] = "idle"
    /\ ncfg < MaxNameOps
    /\ ncfg' = ncfg + 1
    /\ \E w \in Words :
        /\ productName' = [productName EXCEPT ![w] = name]
        /\ npc' = [npc EXCEPT ![s] = Other(w)]
    /\ nname' = [nname EXCEPT ![s] = name]
    /\ UNCHANGED <<muxVars, destVars, regVars, emitVars, cpc, cop, cret,
                   cclosed, nreg, rcall, loggerPrefix, gcall, ghostVars>>

\* The second store of the assignment.
SetProductNameWord(s) ==
    /\ alive = "running"
    /\ npc[s] \in Words
    /\ productName' = [productName EXCEPT ![npc[s]] = nname[s]]
    /\ npc' = [npc EXCEPT ![s] = "prefix"]
    /\ UNCHANGED <<muxVars, destVars, regVars, emitVars, cfgVars,
                   loggerPrefix, nname, gcall, ghostVars>>

\* logger.SetPrefix; SetProductName returns.
LoggerSetPrefix(s) ==
    /\ alive = "running"
    /\ npc[s] = "prefix"
    /\ loggerPrefix' = nname[s]
    /\ npc' = [npc EXCEPT ![s] = "idle"]
    /\ UNCHANGED <<muxVars, destVars, regVars, emitVars, cfgVars,
                   productName, nname, gcall, ghostVars>>

\* An unsubscribe that closes the channel and forgets the delete.
UnsubscribedNoDelete(name) ==
    IF logChannels[name] # 0
    THEN [map |-> logChannels,
          chs |-> [chans EXCEPT ![logChannels[name]].closed = TRUE,
                                ![logChannels[name]].until = NextRange]]
    ELSE [map |-> logChannels, chs |-> chans]

\* An unsubscribe that throws the buffered records away.
UnsubscribedDiscarding(name) ==
    IF logChannels[name] # 0
    THEN [map |-> [logChannels EXCEPT ![name] = 0],
          chs |-> [chans EXCEPT ![logChannels[name]].closed = TRUE,
                                ![logChannels[name]].until = NextRange,
                                ![logChannels[name]].buf = <<>>]]
    ELSE [map |-> logChannels, chs |-> chans]

\* An unsubscribe that empties the registry when the name is unknown.
UnsubscribedResets(name) ==
    IF logChannels[name] # 0
    THEN [map |-> [logChannels EXCEPT ![name] = 0],
          chs |-> [chans EXCEPT ![logChannels[name]].closed = TRUE,
                                ![logChannels[name]].until = NextRange]]
    ELSE [map |-> [n \in Names |-> 0], chs |-> chans]

\* The registry after RemoveLogChannel(name).
Unsubscribed(name) ==
    IF logChannels[name] # 0
    THEN [map |-> [logChannels EXCEPT ![name] = 0],
          chs |-> [chans EXCEPT ![logChannels[name]].closed = TRUE,
                                ![logChannels[name]].until = NextRange]]
    ELSE [map |-> logChannels, chs |-> chans]

\* A RemoveLogChannel that does not wait for the broadcasts in progress.
RemoveLogChannelNoLock(name) ==
    /\ alive = "running"
    /\ nreg < MaxRegOps
    /\ nreg' = nreg + 1
    /\ logChannels' = Unsubscribed(name).map
    /\ chans' = Unsubscribed(name).chs
    /\ rcall' = Call("RemoveLogChannel", name, 0, 0)
    /\ UNCHANGED <<nameVars, muxVars, destVars, bufferSize, chanRecv, emitVars,
                   cpc, cop, cret, cclosed, ncfg, ghostVars>>

RemoveLogChannel(name) ==
    /\ alive = "running"
    /\ nreg < MaxRegOps
    /\ NoReader
    /\ nreg' = nreg + 1
    /\ logChannels' = Unsubscribed(name).map
    /\ chans' = Unsubscribed(name).chs
    /\ rcall' = Call("RemoveLogChannel", name, 0, 0)
    /\ UNCHANGED <<nameVars, muxVars, destVars, bufferSize, chanRecv, emitVars,
                   cpc, cop, cret, cclosed, ncfg, ghostVars>>

\* A consumer receives one record through the handle of channel id.
ChanRecv(id) ==
    /\ alive = "running"
    /\ id \in 1..Len(chans)
    /\ Len(chans[id].buf) > 0
    /\ chanRecv' = [chanRecv EXCEPT ![id] = Append(@, Head(chans[id].buf))]
    /\ chans' = [chans EXCEPT ![id].buf = Tail(@)]
    /\ phase' = [phase EXCEPT ![id] =
                    IF \E e \in Emitters : pc[e] \in {"drop", "retry"}
                                           /\ logChannels[curName[e]] = id
                    THEN "mixed"
                    ELSE IF @ = "fill" THEN "drain" ELSE @]
    /\ UNCHANGED <<nameVars, muxVars, destVars, logChannels, bufferSize, emitVars,
                   cfgVars, alive, nextMsg, emitted, hist>>

\* ------------------------------------------------------------- broadcast
\* A send that never finds the buffer full.
CanSendAlways(c) == TRUE
\* The non-blocking send of a select with a default case.
CanSend(c) == Len(c.buf) < c.cap
\* The non-blocking receive of a select with a default case.
CanRecv(c) == Len(c.buf) > 0 \/ c.closed
\* A send that puts the record at the head of the buffer.
EnqueueFirst(buf, entry) == <<entry>> \o buf
Enqueue(buf, entry) == Append(buf, entry)
\* A receive that empties the buffer.
DropAll(buf) == <<>>
\* A receive that puts the oldest record back behind the others.
DropRotates(buf) == IF Len(buf) > 0 THEN Tail(buf) \o <<Head(buf)>> ELSE buf
\* A receive that took the newest record instead of the oldest.
DropNewest(buf) == IF Len(buf) > 0 THEN SubSeq(buf, 1, Len(buf) - 1) ELSE buf
DropOldest(buf) == IF Len(buf) > 0 THEN Tail(buf) ELSE buf

\* The mirror that is installed and open when an emission is called.
LiveMirror ==
    IF activeReader # 0 /\ pipes[activeReader].installed
       /\ ~pipes[activeReader].closed
    THEN activeReader ELSE 0

\* An emission call: build the record and the text line. GetPrefix reads
\* productName with no lock held, one word of the string header after the
\* other and in an order the language leaves open: the call loads the
\* first word, pc[e] names the word still to load.
Emit(e, level, stack, trace) ==
    /\ alive = "running"
    /\ pc[e] = "idle"
    /\ nextMsg <= MaxMsgs
    /\ nextMsg' = nextMsg + 1
    /\ \E w \in Words :
        /\ cur' = [cur EXCEPT ![e] =
                     [entry |-> LogEntry(nextMsg, level, stack,
                                         [StringOf("") EXCEPT ![w] = GetPrefix[w]]),
                      line |-> TextLine(nextMsg, level, trace)]]
        /\ pc' = [pc EXCEPT ![e] = Other(w)]
    /\ hist' = [hist EXCEPT ![nextMsg].mirrorAtCall = LiveMirror]
    /\ UNCHANGED <<nameVars, muxVars, destVars, regVars, todo, curName, wt, wi,
                   rem, cfgVars, alive, emitted, phase>>

\* GetPrefix loads the second word of productName; the record is complete.
GetPrefixWord(e) ==
    /\ alive = "running"
    /\ pc[e] \in Words
    /\ cur' = [cur EXCEPT ![e].entry.prefix[pc[e]] = GetPrefix[pc[e]]]
    /\ pc' = [pc EXCEPT ![e] = "rlock"]
    /\ UNCHANGED <<nameVars, muxVars, destVars, regVars, todo, curName, wt, wi,
                   rem, cfgVars, ghostVars>>

\* broadcastToChannels is entered: RLock, then the range over the map
\* starts. The writers of the registry hold the lock for one step only, so
\* the read lock is free whenever this step is taken.
BroadcastToChannels(e) ==
    /\ alive = "running"
    /\ pc[e] = "rlock"
    /\ todo' = [todo EXCEPT ![e] = Registered]
    /\ pc' = [pc EXCEPT ![e] = "bcast"]
    /\ phase' = IF \E o \in Emitters : InBroadcast(o)
                THEN [id \in 1..Len(phase) |->
                        IF \E n \in Names : logChannels[n] = id
                        THEN "mixed" ELSE phase[id]]
                ELSE phase
    /\ hist' = [hist EXCEPT ![cur[e].entry.id].seq = NextRange]
    /\ UNCHANGED <<nameVars, muxVars, destVars, regVars, cur, curName, wt, wi,
                   rem, cfgVars, alive, nextMsg, emitted>>

\* An Info whose record carries a stack trace.
InfoWithStack(e) == Emit(e, LevelInfo, TRUE, FALSE)
\* A Warn that appends the stack trace to its line.
WarnWithTrace(e) == Emit(e, LevelWarn, TRUE, TRUE)

\* The five emission functions: whether the record carries debug.Stack()
\* and whether the text handed to Printf has string(debug.Stack()) appended.
Debug(e) == Emit(e, LevelDebug, TRUE, FALSE)
Info(e) == Emit(e, LevelInfo, FALSE, FALSE)
Warn(e) == Emit(e, LevelWarn, TRUE, FALSE)
Error(e) == Emit(e, LevelError, TRUE, TRUE)
Fatal(e) == Emit(e, LevelFatal, TRUE, TRUE)

VisitPhase(id) == [phase EXCEPT ![id] = IF @ = "drain" THEN "mixed" ELSE @]
VisitDone(e, id) == [emitted EXCEPT ![id] = Append(@, cur[e].entry.id)]

\* A send without the default case: it waits until the buffer has room.
BlockingSend(e) ==
    /\ alive = "running"
    /\ pc[e] = "bcast"
    /\ \E name \in todo[e] :
        LET id == logChannels[name] IN
        /\ CanSend(chans[id])
        /\ todo' = [todo EXCEPT ![e] = @ \ {name}]
        /\ phase' = VisitPhase(id)
        /\ chans' = [chans EXCEPT ![id].buf = Enqueue(@, cur[e].entry)]
        /\ emitted' = VisitDone(e, id)
    /\ UNCHANGED <<nameVars, muxVars, destVars, logChannels, bufferSize, chanRecv,
                   pc, cur, curName, wt, wi, rem, cfgVars, alive, nextMsg, hist>>

\* First select: try to send the record to one channel of the map.
BroadcastSend(e) ==
    /\ alive = "running"
    /\ pc[e] = "bcast"
    /\ \E name \in todo[e] :
        LET id == logChannels[name] IN
        /\ todo' = [todo EXCEPT ![e] = @ \ {name}]
        /\ phase' = VisitPhase(id)
        /\ IF chans[id].closed
           THEN /\ alive' = "panicked"
                /\ UNCHANGED <<chans, pc, curName, emitted>>
           ELSE IF CanSend(chans[id])
           THEN /\ chans' = [chans EXCEPT ![id].buf = Enqueue(@, cur[e].entry)]
                /\ emitted' = VisitDone(e, id)
                /\ UNCHANGED <<pc, curName, alive>>
           ELSE /\ pc' = [pc EXCEPT ![e] = "drop"]
                /\ curName' = [curName EXCEPT ![e] = name]
                /\ UNCHANGED <<chans, emitted, alive>>
    /\ UNCHANGED <<nameVars, muxVars, destVars, logChannels, bufferSize, chanRecv,
                   cur, wt, wi, rem, cfgVars, nextMsg, hist>>

\* First select on a channel made with capacity 0: the send succeeds when a
\* consumer is waiting in a receive, and the record goes straight to it.
BroadcastHandoff(e) ==
    /\ alive = "running"
    /\ pc[e] = "bcast"
    /\ \E name \in todo[e] :
        LET id == logChannels[name] IN
        /\ chans[id].cap = 0
        /\ ~chans[id].closed
        /\ todo' = [todo EXCEPT ![e] = @ \ {name}]
        /\ phase' = [phase EXCEPT ![id] = "mixed"]
        /\ chanRecv' = [chanRecv EXCEPT ![id] = Append(@, cur[e].entry)]
        /\ emitted' = VisitDone(e, id)
    /\ UNCHANGED <<nameVars, muxVars, destVars, logChannels, chans, bufferSize,
                   pc, cur, curName, wt, wi, rem, cfgVars, alive, nextMsg, hist>>

\* A failed drop that ends the whole broadcast.
BroadcastDropAborts(e) ==
    /\ alive = "running"
    /\ pc[e] = "drop"
    /\ LET id == logChannels[curName[e]] IN
        /\ IF CanRecv(chans[id])
           THEN /\ chans' = [chans EXCEPT ![id].buf = DropOldest(@)]
                /\ pc' = [pc EXCEPT ![e] = "retry"]
                /\ UNCHANGED <<emitted, todo>>
           ELSE /\ pc' = [pc EXCEPT ![e] = "bcast"]
                /\ emitted' = VisitDone(e, id)
                /\ todo' = [todo EXCEPT ![e] = {}]
                /\ UNCHANGED chans
    /\ UNCHANGED <<nameVars, muxVars, destVars, logChannels, bufferSize,
                   chanRecv, cur, curName, wt, wi, rem, cfgVars,
                   alive, nextMsg, phase, hist>>

\* Second select: the buffer was full, try to take the oldest record out.
BroadcastDrop(e) ==
    /\ alive = "running"
    /\ pc[e] = "drop"
    /\ LET id == logChannels[curName[e]] IN
        /\ IF CanRecv(chans[id])
           THEN /\ chans' = [chans EXCEPT ![id].buf = DropOldest(@)]
                /\ pc' = [pc EXCEPT ![e] = "retry"]
                /\ UNCHANGED emitted
           ELSE /\ pc' = [pc EXCEPT ![e] = "bcast"]
                /\ emitted' = VisitDone(e, id)
                /\ UNCHANGED chans
    /\ UNCHANGED <<nameVars, muxVars, destVars, logChannels, bufferSize, chanRecv,
                   cur, todo, curName, wt, wi, rem, cfgVars,
                   alive, nextMsg, phase, hist>>

\* Third select: send again after the drop; give the record up if still full.
BroadcastRetry(e) ==
    /\ alive = "running"
    /\ pc[e] = "retry"
    /\ LET id == logChannels[curName[e]] IN
        /\ emitted' = VisitDone(e, id)
        /\ IF chans[id].closed
           THEN /\ alive' = "panicked"
                /\ UNCHANGED <<chans, pc>>
           ELSE /\ chans' = IF CanSend(chans[id])
                            THEN [chans EXCEPT ![id].buf = Enqueue(@, cur[e].entry)]
                            ELSE chans
                /\ pc' = [pc EXCEPT ![e] = "bcast"]
                /\ UNCHANGED alive
    /\ UNCHANGED <<nameVars, muxVars, destVars, logChannels, bufferSize, chanRecv,
                   cur, todo, curName, wt, wi, rem, cfgVars,
                   nextMsg, phase, hist>>

Gone == {g \in 1..Len(pipes) : pipes[g].gone # "no"}

\* A Printf that does not wait for the end of the broadcast.
BroadcastReturnEarly(e) ==
    /\ alive = "running"
    /\ pc[e] = "bcast"
    /\ pc' = [pc EXCEPT ![e] = "printf"]
    /\ hist' = [hist EXCEPT ![cur[e].line.id].goneAtWrite = Gone]
    /\ UNCHANGED <<nameVars, muxVars, destVars, regVars, cur, todo, curName,
                   wt, wi, rem, cfgVars, alive, nextMsg, emitted, phase>>

\* broadcastToChannels returns (RUnlock) and the emission calls logger.Printf.
BroadcastReturn(e) ==
    /\ alive = "running"
    /\ pc[e] = "bcast"
    /\ todo[e] = {}
    /\ pc' = [pc EXCEPT ![e] = "printf"]
    /\ hist' = [hist EXCEPT ![cur[e].line.id].goneAtWrite = Gone]
    /\ UNCHANGED <<nameVars, muxVars, destVars, regVars, cur, todo, curName, wt, wi, rem,
                   cfgVars, alive, nextMsg, emitted, phase>>

\* ----------------------------------------------------------- multiplexer
\* An updateMultiWriter in which the custom writer replaces the console.
UpdateMultiWriterReplacing(custom, reader) ==
    (IF custom # 0 THEN <<CustomTarget(custom)>> ELSE <<ConsoleTarget>>)
    \o (IF reader # 0 THEN <<PipeTarget(reader)>> ELSE <<>>)

\* updateMultiWriter: console, then the custom writer, then the pipe writer.
UpdateMultiWriter(custom, reader) ==
    <<ConsoleTarget>>
    \o (IF custom # 0 THEN <<CustomTarget(custom)>> ELSE <<>>)
    \o (IF reader # 0 THEN <<PipeTarget(reader)>> ELSE <<>>)

\* A Close that was forgotten.
ClosePipeNot(ps, g) == ps
ClosePipe(ps, g) == IF g # 0 THEN [ps EXCEPT ![g].closed = TRUE] ELSE ps

\* A nil check that never finds nil.
CustomNeverNil(w) == FALSE
CustomIsNil(w) == w = 0

Returned == {m \in 1..MaxMsgs : hist[m].returned}

\* A SetOutput that stores the writer and forgets updateMultiWriter.
SetOutputNoUpdate(c, w) ==
    /\ alive = "running"
    /\ cpc[c] = "idle"
    /\ ncfg < MaxCfgOps
    /\ writerMutex = "free"
    /\ ncfg' = ncfg + 1
    /\ customWriter' = w
    /\ cop' = [cop EXCEPT ![c] = "SetOutput"]
    /\ cret' = [cret EXCEPT ![c] = "none"]
    /\ cclosed' = [cclosed EXCEPT ![c] = 0]
    /\ UNCHANGED <<nameVars, activeReader, multiWriter, loggerOut, writerMutex, outMu,
                   pipes, destVars, regVars, emitVars, cpc, nreg, rcall,
                   ghostVars>>

\* SetOutput up to the call of logger.SetOutput inside updateMultiWriter.
SetOutput(c, w) ==
    /\ alive = "running"
    /\ cpc[c] = "idle"
    /\ ncfg < MaxCfgOps
    /\ writerMutex = "free"
    /\ writerMutex' = c
    /\ ncfg' = ncfg + 1
    /\ customWriter' = w
    /\ multiWriter' = UpdateMultiWriter(w, activeReader)
    /\ cpc' = [cpc EXCEPT ![c] = "setOutput"]
    /\ cop' = [cop EXCEPT ![c] = "SetOutput"]
    /\ cret' = [cret EXCEPT ![c] = "none"]
    /\ cclosed' = [cclosed EXCEPT ![c] = 0]
    /\ UNCHANGED <<nameVars, activeReader, loggerOut, outMu, pipes, destVars, regVars,
                   emitVars, nreg, rcall, ghostVars>>

\* GetReaderCopy up to the call of logger.SetOutput, or its error return.
GetReaderCopy(c) ==
    /\ alive = "running"
    /\ cpc[c] = "idle"
    /\ ncfg < MaxCfgOps
    /\ writerMutex = "free"
    /\ ncfg' = ncfg + 1
    /\ cop' = [cop EXCEPT ![c] = "GetReaderCopy"]
    /\ IF CustomIsNil(customWriter)
       THEN /\ cret' = [cret EXCEPT ![c] = "error"]
            /\ cclosed' = [cclosed EXCEPT ![c] = 0]
            /\ UNCHANGED <<writerMutex, activeReader, multiWriter, pipes,
                           pipeRead, pipeEOF, cpc>>
       ELSE /\ writerMutex' = c
            /\ pipes' = Append(ClosePipe(pipes, activeReader), NewPipe(Returned))
            /\ pipeRead' = Append(pipeRead, <<>>)
            /\ pipeEOF' = Append(pipeEOF, FALSE)
            /\ activeReader' = Len(pipes) + 1
            /\ multiWriter' = UpdateMultiWriter(customWriter, Len(pipes) + 1)
            /\ cpc' = [cpc EXCEPT ![c] = "setOutput"]
            /\ cret' = [cret EXCEPT ![c] = "none"]
            /\ cclosed' = [cclosed EXCEPT ![c] = activeReader]
    /\ UNCHANGED <<nameVars, customWriter, loggerOut, outMu, console, sinkLog, regVars,
                   emitVars, nreg, rcall, ghostVars>>

\* A RemoveReaderCopy that closes the pipe and forgets updateMultiWriter.
RemoveReaderCopyNoUpdate(c) ==
    /\ alive = "running"
    /\ cpc[c] = "idle"
    /\ ncfg < MaxCfgOps
    /\ writerMutex = "free"
    /\ ncfg' = ncfg + 1
    /\ cop' = [cop EXCEPT ![c] = "RemoveReaderCopy"]
    /\ cret' = [cret EXCEPT ![c] = "none"]
    /\ cclosed' = [cclosed EXCEPT ![c] = activeReader]
    /\ IF activeReader # 0
       THEN /\ pipes' = [ClosePipe(pipes, activeReader)
                            EXCEPT ![activeReader].gone = "released"]
            /\ activeReader' = 0
       ELSE UNCHANGED <<pipes, activeReader>>
    /\ UNCHANGED <<nameVars, customWriter, multiWriter, loggerOut, writerMutex, outMu,
                   cpc, destVars, regVars, emitVars, nreg, rcall, ghostVars>>

\* RemoveReaderCopy up to the call of logger.SetOutput, or its no-op return.
RemoveReaderCopy(c) ==
    /\ alive = "running"
    /\ cpc[c] = "idle"
    /\ ncfg < MaxCfgOps
    /\ writerMutex = "free"
    /\ ncfg' = ncfg + 1
    /\ cop' = [cop EXCEPT ![c] = "RemoveReaderCopy"]
    /\ cret' = [cret EXCEPT ![c] = "none"]
    /\ cclosed' = [cclosed EXCEPT ![c] = activeReader]
    /\ IF activeReader # 0
       THEN /\ writerMutex' = c
            /\ pipes' = ClosePipe(pipes, activeReader)
            /\ activeReader' = 0
            /\ multiWriter' = UpdateMultiWriter(customWriter, 0)
            /\ cpc' = [cpc EXCEPT ![c] = "setOutput"]
       ELSE UNCHANGED <<writerMutex, pipes, activeReader, multiWriter, cpc>>
    /\ UNCHANGED <<nameVars, customWriter, loggerOut, outMu, destVars, regVars,
                   emitVars, nreg, rcall, ghostVars>>

\* The end of updateMultiWriter: logger.SetOutput takes the logger's mutex,
\* stores the new writer, and the deferred writerMutex.Unlock runs.
LoggerSetOutput(c) ==
    /\ alive = "running"
    /\ cpc[c] = "setOutput"
    /\ outMu = "free"
    /\ loggerOut' = multiWriter
    /\ writerMutex' = "free"
    /\ cpc' = [cpc EXCEPT ![c] = "idle"]
    /\ cret' = [cret EXCEPT ![c] =
                  IF cop[c] = "GetReaderCopy" THEN "stream" ELSE "none"]
    /\ pipes' = [g \in 1..Len(pipes) |->
                  IF cop[c] = "GetReaderCopy" /\ g = activeReader
                  THEN [pipes[g] EXCEPT !.installed = TRUE]
                  ELSE IF g = cclosed[c]
                  THEN [pipes[g] EXCEPT !.gone =
                          IF cop[c] = "GetReaderCopy" THEN "replaced" ELSE "released"]
                  ELSE pipes[g]]
    /\ UNCHANGED <<nameVars, customWriter, activeReader, multiWriter, outMu, destVars,
                   regVars, emitVars, cop, cclosed, ncfg, nreg, rcall, ghostVars>>

\* ------------------------------------------------------------ write path
\* A Printf that writes without taking the logger's mutex.
PrintfNoLock(e) ==
    /\ alive = "running"
    /\ pc[e] = "lock"
    /\ outMu' = e
    /\ wt' = [wt EXCEPT ![e] = loggerOut]
    /\ wi' = [wi EXCEPT ![e] = 1]
    /\ pc' = [pc EXCEPT ![e] = "write"]
    /\ hist' = [hist EXCEPT ![cur[e].line.id].targets = loggerOut]
    /\ UNCHANGED <<nameVars, customWriter, activeReader, multiWriter, loggerOut,
                   writerMutex, pipes, destVars, regVars, cur, todo, curName,
                   rem, cfgVars, alive, nextMsg, emitted, phase>>

\* logger.Printf formats the line: the logger loads its prefix and puts it
\* in front of the text before it asks for its mutex.
PrintfPrefix(e) ==
    /\ alive = "running"
    /\ pc[e] = "printf"
    /\ cur' = [cur EXCEPT ![e].line.prefix = loggerPrefix]
    /\ pc' = [pc EXCEPT ![e] = "lock"]
    /\ UNCHANGED <<nameVars, muxVars, destVars, regVars, todo, curName, wt, wi,
                   rem, cfgVars, ghostVars>>

\* logger.Printf with the line formatted: the logger takes its mutex and
\* reads its writer.
PrintfLock(e) ==
    /\ alive = "running"
    /\ pc[e] = "lock"
    /\ outMu = "free"
    /\ outMu' = e
    /\ wt' = [wt EXCEPT ![e] = loggerOut]
    /\ wi' = [wi EXCEPT ![e] = 1]
    /\ pc' = [pc EXCEPT ![e] = "write"]
    /\ hist' = [hist EXCEPT ![cur[e].line.id].targets = loggerOut]
    /\ UNCHANGED <<nameVars, customWriter, activeReader, multiWriter, loggerOut,
                   writerMutex, pipes, destVars, regVars, cur, todo, curName,
                   rem, cfgVars, alive, nextMsg, emitted, phase>>

\* io.MultiWriter after target i has answered: go on with the next target
\* when it accepted, stop at once when it returned an error.
NextTarget(i, n, ok) == IF ok /\ i < n THEN i + 1 ELSE 0

\* The write returns: the logger releases its mutex and the emission returns.
Finished(e, ok) ==
    /\ outMu' = "free"
    /\ pc' = [pc EXCEPT ![e] = IF cur[e].entry.level = LevelFatal
                               THEN "exit" ELSE "idle"]
    /\ wi' = [wi EXCEPT ![e] = 0]
    /\ hist' = [hist EXCEPT
          ![cur[e].line.id].returned = TRUE,
          ![cur[e].line.id].rejected = ~ok /\ wt[e][wi[e]].kind = "custom",
          ![cur[e].line.id].cut =
              \E i \in 1..Len(wt[e]) : wt[e][i].kind = "pipe"
                                       /\ pipes[wt[e][i].id].closed,
          ![cur[e].line.id].openAtReturn =
              hist[cur[e].line.id].mirrorAtCall # 0
              /\ ~pipes[hist[cur[e].line.id].mirrorAtCall].closed]

Advance(e, ok) ==
    IF NextTarget(wi[e], Len(wt[e]), ok) = 0
    THEN Finished(e, ok)
    ELSE /\ wi' = [wi EXCEPT ![e] = NextTarget(wi[e], Len(wt[e]), ok)]
         /\ UNCHANGED <<outMu, pc, hist>>

WriteConsole(e) ==
    /\ alive = "running"
    /\ pc[e] = "write"
    /\ wt[e][wi[e]].kind = "console"
    /\ console' = Append(console, cur[e].line)
    /\ Advance(e, TRUE)
    /\ UNCHANGED <<nameVars, customWriter, activeReader, multiWriter, loggerOut,
                   writerMutex, pipes, sinkLog, pipeRead, pipeEOF, regVars,
                   cur, todo, curName, wt, rem, cfgVars,
                   alive, nextMsg, emitted, phase>>

\* The custom writer accepts the line or returns an error.
WriteCustom(e, ok) ==
    /\ alive = "running"
    /\ pc[e] = "write"
    /\ wt[e][wi[e]].kind = "custom"
    /\ sinkLog' = IF ok THEN [sinkLog EXCEPT ![wt[e][wi[e]].id] = Append(@, cur[e].line)]
                  ELSE sinkLog
    /\ Advance(e, ok)
    /\ UNCHANGED <<nameVars, customWriter, activeReader, multiWriter, loggerOut,
                   writerMutex, pipes, console, pipeRead, pipeEOF, regVars,
                   cur, todo, curName, wt, rem, cfgVars,
                   alive, nextMsg, emitted, phase>>

\* PipeWriter.Write starts: ErrClosedPipe at once on a closed pipe, else the
\* bytes are offered to the reader.
WritePipe(e) ==
    /\ alive = "running"
    /\ pc[e] = "write"
    /\ wt[e][wi[e]].kind = "pipe"
    /\ IF pipes[wt[e][wi[e]].id].closed
       THEN /\ Advance(e, FALSE)
            /\ UNCHANGED rem
       ELSE /\ pc' = [pc EXCEPT ![e] = "pipe"]
            /\ rem' = [rem EXCEPT ![e] = LineLen]
            /\ UNCHANGED <<outMu, wi, hist>>
    /\ UNCHANGED <<nameVars, customWriter, activeReader, multiWriter, loggerOut,
                   writerMutex, pipes, destVars, regVars,
                   cur, todo, curName, wt, cfgVars,
                   alive, nextMsg, emitted, phase>>

\* A pipe write that gives up whenever it likes.
PipeWriteGivesUp(g, left) == TRUE
\* PipeWriter.Write may return once every byte was read or the pipe is closed.
PipeWriteDone(g, left) == left = 0 \/ pipes[g].closed

PipeWriteReturn(e) ==
    /\ alive = "running"
    /\ pc[e] = "pipe"
    /\ PipeWriteDone(wt[e][wi[e]].id, rem[e])
    /\ IF rem[e] = 0 /\ NextTarget(wi[e], Len(wt[e]), TRUE) # 0
       THEN /\ wi' = [wi EXCEPT ![e] = NextTarget(wi[e], Len(wt[e]), TRUE)]
            /\ pc' = [pc EXCEPT ![e] = "write"]
            /\ UNCHANGED <<outMu, hist>>
       ELSE Finished(e, rem[e] = 0)
    /\ rem' = [rem EXCEPT ![e] = 0]
    /\ UNCHANGED <<nameVars, customWriter, activeReader, multiWriter, loggerOut,
                   writerMutex, pipes, destVars, regVars,
                   cur, todo, curName, wt, cfgVars,
                   alive, nextMsg, emitted, phase>>

\* An exit that does not wait for the broadcast and the write.
ExitEarly(e) ==
    /\ alive = "running"
    /\ pc[e] # "idle"
    /\ cur[e].entry.level = LevelFatal
    /\ alive' = "exited"
    /\ UNCHANGED <<nameVars, muxVars, destVars, regVars, emitVars, cfgVars,
                   nextMsg, emitted, phase, hist>>

\* Fatal after logger.Printf has returned: os.Exit(1) ends the process.
Exit(e) ==
    /\ alive = "running"
    /\ pc[e] = "exit"
    /\ alive' = "exited"
    /\ UNCHANGED <<nameVars, muxVars, destVars, regVars, emitVars, cfgVars,
                   nextMsg, emitted, phase, hist>>

\* PipeReader.Read: the consumer of pipe g takes up to ReadBuf bytes of the
\* line a writer is offering.
MirrorRead(g) ==
    /\ alive = "running"
    /\ g \in 1..Len(pipes)
    /\ ~pipes[g].closed
    /\ \E e \in Emitters :
        /\ pc[e] = "pipe"
        /\ wt[e][wi[e]].id = g
        /\ rem[e] > 0
        /\ \E k \in 1..Min(ReadBuf, rem[e]) :
            /\ pipeRead' = [pipeRead EXCEPT ![g] =
                  @ \o LineBytes(cur[e].line, LineLen - rem[e] + 1,
                                 LineLen - rem[e] + k)]
            /\ rem' = [rem EXCEPT ![e] = @ - k]
    /\ UNCHANGED <<nameVars, muxVars, console, sinkLog, pipeEOF, regVars,
                   pc, cur, todo, curName, wt, wi, cfgVars, ghostVars>>

\* PipeReader.Read on a closed pipe: the consumer sees end-of-stream.
MirrorEOF(g) ==
    /\ alive = "running"
    /\ g \in 1..Len(pipes)
    /\ pipes[g].closed
    /\ ~pipeEOF[g]
    /\ pipeEOF' = [pipeEOF EXCEPT ![g] = TRUE]
    /\ UNCHANGED <<nameVars, muxVars, console, sinkLog, pipeRead, regVars,
                   emitVars, cfgVars, ghostVars>>

\* -------------------------------------------------------- specifications
\* Steps of emitter e inside broadcastToChannels.
BroadcastSteps(e) ==
    \/ BroadcastSend(e)
    \/ BroadcastDrop(e)
    \/ BroadcastRetry(e)

\* Steps of the mirror's consumer and of emitter e writing to the custom
\* writer and to the pipe.
WriteSteps(e) ==
    \/ \E ok \in BOOLEAN : WriteCustom(e, ok)
    \/ WritePipe(e)
    \/ PipeWriteReturn(e)

MirrorSteps ==
    \/ \E g \in 1..MaxCfgOps : MirrorRead(g)
    \/ \E g \in 1..MaxCfgOps : MirrorEOF(g)

\* Steps every emission makes once it is called, whatever is configured.
CallSteps(e) ==
    \/ GetPrefixWord(e)
    \/ BroadcastToChannels(e)
    \/ BroadcastReturn(e)
    \/ PrintfPrefix(e)
    \/ PrintfLock(e)
    \/ WriteConsole(e)

EmitSteps(e) ==
    \/ Info(e)
    \/ CallSteps(e)

ConfigSteps ==
    \/ \E c \in Cfgs, w \in Sinks \cup {0} : SetOutput(c, w)
    \/ \E c \in Cfgs : GetReaderCopy(c)
    \/ \E c \in Cfgs : RemoveReaderCopy(c)
    \/ \E c \in Cfgs : LoggerSetOutput(c)

SubscribeSteps ==
    \/ \E n \in Names, size \in 1..MaxCap : GetLogChannelWithConfig(n, size)
    \/ \E id \in 1..MaxChans : ChanRecv(id)

\* The five emission functions and the exit that ends Fatal.
LevelSteps(e) ==
    \/ Debug(e) \/ Info(e) \/ Warn(e) \/ Error(e) \/ Fatal(e)
    \/ Exit(e)

NameSteps ==
    \/ \E s \in Setters, name \in ProductNames : SetProductName(s, name)
    \/ \E s \in Setters : SetProductNameWord(s)
    \/ \E s \in Setters : LoggerSetPrefix(s)

RegistrySteps ==
    \/ \E n \in Names : GetLogChannel(n)
    \/ GetLogChannelCall
    \/ \E n \in Names : RemoveLogChannel(n)
    \/ \E size \in 0..MaxCap : SetChannelBufferSize(size)

\* The whole package.
Next ==
    \/ \E e \in Emitters : LevelSteps(e) \/ CallSteps(e) \/ BroadcastSteps(e)
                           \/ BroadcastHandoff(e) \/ WriteSteps(e)
    \/ MirrorSteps \/ ConfigSteps \/ RegistrySteps \/ NameSteps
    \/ \E n \in Names, size \in -1..MaxCap : GetLogChannelWithConfig(n, size)
    \/ \E id \in 1..MaxChans : ChanRecv(id)
Spec == Init /\ [][Next]_vars

\* The multiplexer and the mirror, with no subscription registered.
NextMux ==
    \/ \E e \in Emitters : (nextMsg <= MuxMsgs /\ Info(e)) \/ CallSteps(e)
                           \/ WriteSteps(e)
    \/ MirrorSteps \/ ConfigSteps
SpecMux == Init /\ [][NextMux]_vars

\* Concurrent emitters and subscriptions nobody reads from.
NextFan ==
    \/ \E e \in Emitters : EmitSteps(e) \/ BroadcastSteps(e)
    \/ \E n \in Names, size \in 1..MaxCap : GetLogChannelWithConfig(n, size)
SpecFan == Init /\ [][NextFan]_vars

\* One emitter and the subscribers of its records.
NextDrop ==
    \/ EmitSteps("e1") \/ BroadcastSteps("e1")
    \/ SubscribeSteps
SpecDrop == Init /\ [][NextDrop]_vars
\* The same with an emitter that, once called, is scheduled until it returns.
SpecDropFair ==
    SpecDrop /\ WF_vars(BroadcastSteps("e1") \/ CallSteps("e1"))

\* One emitter, the registry functions with any BufferSize, and consumers.
NextReg ==
    \/ EmitSteps("e1") \/ BroadcastSteps("e1") \/ BroadcastHandoff("e1")
    \/ \E n \in Names, size \in -1..MaxCap : GetLogChannelWithConfig(n, size)
    \/ \E id \in 1..MaxChans : ChanRecv(id)
    \/ GetLogChannel("a") \/ GetLogChannelCall
    \/ \E n \in Names : RemoveLogChannel(n)
    \/ \E size \in 0..MaxCap : SetChannelBufferSize(size)
SpecReg == Init /\ [][NextReg]_vars

\* Two emitters using the five emission functions, one subscription with
\* its consumer, and the console.
NextLevel ==
    \/ \E e \in Emitters :
          \/ nextMsg <= LevelMsgs /\ Debug(e)
          \/ nextMsg <= LevelMsgs /\ Info(e)
          \/ nextMsg <= LevelMsgs /\ Warn(e)
          \/ nextMsg <= LevelMsgs /\ Error(e)
          \/ nextMsg <= LevelMsgs /\ Fatal(e)
          \/ BroadcastSteps(e) \/ CallSteps(e) \/ Exit(e)
    \/ GetLogChannelWithConfig("a", 1)
    \/ \E id \in 1..MaxChans : ChanRecv(id)
SpecLevel == Init /\ [][NextLevel]_vars

\* One emitter, SetProductName from two goroutines, each with a name of
\* its own, and the default capacity changed around GetLogChannel.
NextCfg ==
    \/ (nextMsg <= CfgMsgs /\ Info("e1")) \/ BroadcastSteps("e1")
    \/ CallSteps("e1")
    \/ SetProductName("s1", "p") \/ SetProductName("s2", "q")
    \/ \E s \in Setters : SetProductNameWord(s) \/ LoggerSetPrefix(s)
    \/ GetLogChannel("a") \/ GetLogChannelCall
    \/ \E size \in 0..MaxCap : SetChannelBufferSize(size)
SpecCfg == Init /\ [][NextCfg]_vars

\* One emitter, the multiplexer with its mirror, and one subscription of
\* capacity 1 with its consumer.
NextPipe ==
    \/ (nextMsg <= MuxMsgs /\ Info("e1")) \/ BroadcastSteps("e1")
    \/ CallSteps("e1") \/ WriteSteps("e1")
    \/ MirrorSteps \/ ConfigSteps
    \/ GetLogChannelWithConfig("a", 1)
    \/ \E id \in 1..MaxChans : ChanRecv(id)
SpecPipe == Init /\ [][NextPipe]_vars

\* Two emitters against subscribe and unsubscribe calls, nobody reading.
NextClose ==
    \/ \E e \in Emitters : EmitSteps(e) \/ BroadcastSteps(e)
    \/ GetLogChannel("a") \/ GetLogChannelCall
    \/ GetLogChannelWithConfig("b", 1)
    \/ \E n \in Names : RemoveLogChannel(n)
SpecClose == Init /\ [][NextClose]_vars

\* ================================================================ claims
Ids(q) == [i \in 1..Len(q) |-> q[i].id]
MidVisit(id) == \E e \in Emitters : pc[e] \in {"drop", "retry"}
                                    /\ logChannels[curName[e]] = id

\* C1 (drop-oldest law): for a subscription of capacity K >= 1 that received
\* N >= K emissions one after another, none of them after a read and none
\* overlapping another broadcast, the records its reader has received
\* followed by the records still queued are exactly the last K emitted
\* records, in emission order.
C1_DropOldest ==
    \A id \in 1..Len(chans) :
        (/\ phase[id] # "mixed"
         /\ ~MidVisit(id)
         /\ chans[id].cap >= 1
         /\ Len(emitted[id]) >= chans[id].cap)
        => Ids(chanRecv[id] \o chans[id].buf) = LastK(emitted[id], chans[id].cap)

\* Three emissions into a capacity-2 subscription, then a reader that has
\* taken both surviving records.
C1_Witness ==
    \E id \in 1..Len(chans) :
        /\ chans[id].cap = 2
        /\ Len(emitted[id]) = 3
        /\ phase[id] = "drain"
        /\ Len(chanRecv[id]) = 2

\* C2 (non-blocking fan-out): an emitter inside broadcastToChannels always
\* has a step it can take whatever the queues hold and although nobody
\* reads, each subscription of the map is visited once, and a visit is at
\* most a send, a receive and a second send.
C2_Step(e) ==
    /\ (InBroadcast(e) /\ pc'[e] # "printf") => todo'[e] \subseteq todo[e]
    /\ (pc[e] = "bcast" /\ todo'[e] # todo[e])
           => \E n \in todo[e] : todo'[e] = todo[e] \ {n}
    /\ (pc[e] = "bcast" /\ pc'[e] = "drop")
           => curName'[e] \in todo[e] /\ curName'[e] \notin todo'[e]
    /\ pc[e] = "drop" => pc'[e] \in {"drop", "retry", "bcast"}
    /\ pc[e] = "retry" => pc'[e] \in {"retry", "bcast"}
    /\ pc[e] \in {"drop", "retry"} => todo'[e] = todo[e] /\ curName'[e] = curName[e]

C2_NeverWaits ==
    /\ [](\A e \in Emitters :
            InBroadcast(e) => ENABLED (BroadcastSteps(e) \/ BroadcastReturn(e)))
    /\ [][\A e \in Emitters : C2_Step(e)]_vars

\* An emitter about to make its third operation on a subscription that is
\* full again, with no consumer anywhere.
C2_Witness ==
    \E e \in Emitters :
        /\ pc[e] = "retry"
        /\ ~CanSend(chans[logChannels[curName[e]]])
        /\ \A id \in 1..Len(chans) : chanRecv[id] = <<>>

\* ------------------------------------------------ what destinations hold
InSeq(q, m) == \E i \in 1..Len(q) : q[i].id = m
Pos(q, m) == CHOOSE i \in 1..Len(q) : q[i].id = m
NoRepeat(q) == \A i, k \in 1..Len(q) : q[i].id = q[k].id => i = k
SameOrder(p, q) ==
    \A x, y \in Range(Ids(p)) \cap Range(Ids(q)) :
        Pos(p, x) < Pos(p, y) <=> Pos(q, x) < Pos(q, y)
SameContent(p, q) ==
    \A i \in 1..Len(p), k \in 1..Len(q) : p[i].id = q[k].id => p[i] = q[k]

\* The bytes a consumer read are whole lines one after another; only the
\* last line may be incomplete.
IsLineStream(bs) ==
    \A i \in 1..Len(bs) :
        /\ bs[i].j = ((i - 1) % LineLen) + 1
        /\ bs[i].j > 1 => bs[i].line = bs[i - 1].line
\* The complete lines among the bytes the consumer of pipe g read.
PipeLines(g) ==
    [k \in 1..(Len(pipeRead[g]) \div LineLen) |-> pipeRead[g][k * LineLen].line]
Writing(g) == \E e \in Emitters : pc[e] = "pipe" /\ wt[e][wi[e]].id = g

Delivered(m, t) ==
    CASE t.kind = "console" -> InSeq(console, m)
      [] t.kind = "custom" -> InSeq(sinkLog[t.id], m)
      [] t.kind = "pipe" -> InSeq(PipeLines(t.id), m)

DestLogs == {console} \cup {sinkLog[s] : s \in Sinks}
            \cup {PipeLines(g) : g \in 1..Len(pipes)}

\* C3 (order preservation): every destination holds whole lines only, each
\* at most once; any two destinations hold their common lines in the same
\* order; and a line whose write returned with no target rejecting it and
\* no mirror closed under it is held by every target of the writer the
\* logger had when the write began.
C3_OrderPreservation ==
    /\ \A g \in 1..Len(pipes) :
        /\ IsLineStream(pipeRead[g])
        /\ (~pipes[g].closed /\ ~Writing(g)) => Len(pipeRead[g]) % LineLen = 0
    /\ \A p \in DestLogs : NoRepeat(p)
    /\ \A p, q \in DestLogs : SameOrder(p, q) /\ SameContent(p, q)
    /\ \A m \in Returned :
        (~hist[m].rejected /\ ~hist[m].cut)
        => \A i \in 1..Len(hist[m].targets) : Delivered(m, hist[m].targets[i])

\* Two lines, each held by the console, one custom writer and one mirror.
C3_Witness ==
    \E s \in Sinks, g \in 1..Len(pipes) :
        /\ Len(console) = 2
        /\ Len(sinkLog[s]) = 2
        /\ Len(PipeLines(g)) = 2

\* C4 (mirror precondition): a GetReaderCopy call made while customWriter is
\* nil returns an error and no stream, and leaves the writers, the pipes and
\* everything delivered as they were.
C4_MirrorPrecondition ==
    [][\A c \in Cfgs :
         (cpc[c] = "idle" /\ ncfg' = ncfg + 1 /\ cop'[c] = "GetReaderCopy"
          /\ customWriter = 0)
         => /\ cret'[c] = "error"
            /\ cpc'[c] = "idle"
            /\ UNCHANGED <<muxVars, destVars>>]_vars

\* GetReaderCopy has failed once SetOutput(nil) had removed a custom writer.
C4_Witness ==
    \E c \in Cfgs : /\ cop[c] = "GetReaderCopy" /\ cret[c] = "error"
                    /\ ncfg = 3 /\ customWriter = 0

\* C5 (mirror replacement): a pipe is closed before a later pipe exists;
\* once the replacing GetReaderCopy has returned, the consumer of the
\* replaced pipe reads end-of-stream and can read no byte, and holds no
\* byte of a line whose Printf was called after that return.
C5_MirrorReplacement ==
    \A g \in 1..Len(pipes) :
        /\ g < Len(pipes) => pipes[g].closed
        /\ pipes[g].gone = "replaced"
           => /\ pipes[g].closed
              /\ pipeEOF[g] \/ ENABLED MirrorEOF(g)
              /\ ~ENABLED MirrorRead(g)
              /\ \A i \in 1..Len(pipeRead[g]) :
                    g \notin hist[pipeRead[g][i].line.id].goneAtWrite

\* A replaced mirror that had received a line and has seen end-of-stream,
\* and a line written after the replacement.
C5_Witness ==
    \E g \in 1..Len(pipes), m \in Returned :
        /\ pipes[g].gone = "replaced"
        /\ pipeEOF[g]
        /\ Len(pipeRead[g]) = LineLen
        /\ g \in hist[m].goneAtWrite

\* C6 (mirror live copy): an emission called while a mirror was installed
\* and open, and returned while that mirror was still open, has had its
\* whole line read by the mirror's consumer, with the content and in the
\* order the custom writers hold.
C6_MirrorLiveCopy ==
    /\ \A m \in Returned :
        hist[m].openAtReturn => InSeq(PipeLines(hist[m].mirrorAtCall), m)
    /\ \A g \in 1..Len(pipes), s \in Sinks :
        SameOrder(PipeLines(g), sinkLog[s]) /\ SameContent(PipeLines(g), sinkLog[s])

\* C7 (mirror release): once RemoveReaderCopy has returned, the released
\* pipe is closed and in no writer, its consumer reads end-of-stream and
\* holds no byte of a line whose Printf was called after that return; no
\* mirror holds a byte of a line whose write had returned before the mirror
\* was made; RemoveReaderCopy with no mirror installed changes nothing.
C7_Released(g) ==
    /\ pipes[g].closed
    /\ activeReader # g
    /\ PipeTarget(g) \notin Range(multiWriter) \cup Range(loggerOut)
    /\ pipeEOF[g] \/ ENABLED MirrorEOF(g)
    /\ ~ENABLED MirrorRead(g)
    /\ \A i \in 1..Len(pipeRead[g]) :
          g \notin hist[pipeRead[g][i].line.id].goneAtWrite

C7_MirrorRelease ==
    /\ [](\A g \in 1..Len(pipes) :
            /\ pipes[g].gone = "released" => C7_Released(g)
            /\ \A i \in 1..Len(pipeRead[g]) :
                  pipeRead[g][i].line.id \notin pipes[g].born)
    /\ [][\A c \in Cfgs :
            (cpc[c] = "idle" /\ ncfg' = ncfg + 1 /\ cop'[c] = "RemoveReaderCopy"
             /\ activeReader = 0)
            => cpc'[c] = "idle" /\ UNCHANGED <<muxVars, destVars>>]_vars

\* A released mirror that had received a line and has seen end-of-stream,
\* and a line written after the release.
C7_Witness ==
    \E g \in 1..Len(pipes), m \in Returned :
        /\ pipes[g].gone = "released"
        /\ pipeEOF[g]
        /\ Len(pipeRead[g]) = LineLen
        /\ g \in hist[m].goneAtWrite

\* C8 as claimed (bounded wait): an emitter waiting in the write to the
\* mirror can always give the write up by itself.
C8_BoundedWait ==
    \A e \in Emitters : pc[e] = "pipe" => ENABLED PipeWriteReturn(e)

\* C8 as amended (no bounded wait): an emitter whose write has reached an
\* open mirror has no step of its own as long as the consumer has not read
\* the whole line.
C8_BlockedUntilReadOrClosed ==
    \A e \in Emitters :
        (pc[e] = "pipe" /\ rem[e] > 0 /\ ~pipes[wt[e][wi[e]].id].closed)
        => ~ENABLED (Info(e) \/ BroadcastReturn(e) \/ PrintfLock(e)
                     \/ WriteConsole(e) \/ WriteSteps(e))

\* An emitter in the write to an open mirror of which nothing was read.
C8_Witness ==
    \E e \in Emitters :
        /\ pc[e] = "pipe"
        /\ rem[e] = LineLen
        /\ ~pipes[wt[e][wi[e]].id].closed
        /\ pipeRead[wt[e][wi[e]].id] = <<>>

\* C9 (mirror backpressure): a write whose writer holds a mirror has
\* returned only if the consumer has read the whole line or the mirror was
\* closed; while an emitter waits in the write to the mirror no other
\* emitter is writing.
C9_Backpressure ==
    /\ \A m \in Returned : \A i \in 1..Len(hist[m].targets) :
        hist[m].targets[i].kind = "pipe"
        => InSeq(PipeLines(hist[m].targets[i].id), m) \/ hist[m].cut
    /\ \A e, o \in Emitters :
        (pc[e] = "pipe" /\ o # e) => pc[o] \notin {"write", "pipe"}

\* C10 (best-effort broadcast): a line the custom writer rejected is still
\* held by every other target of the writer, unless that target is a mirror
\* closed under the write.
C10_BestEffort ==
    \A m \in Returned : \A i \in 1..Len(hist[m].targets) :
        (hist[m].rejected /\ hist[m].targets[i].kind # "custom")
        => \/ Delivered(m, hist[m].targets[i])
           \/ hist[m].targets[i].kind = "pipe" /\ hist[m].cut

\* ------------------------------------------------------------- registry
RegCall(op) == nreg' = nreg + 1 /\ rcall'.op = op

\* C11 (subscribe on an existing name): GetLogChannelWithConfig on a
\* registered name returns the channel the creating call registered and
\* returned, whatever BufferSize it is given, and leaves the map, every
\* channel's capacity and buffer, and what consumers received unchanged; a
\* creating call returns a channel that did not exist; every open channel is
\* registered under exactly one name.
C11_SubscribeExisting ==
    /\ [](\A id \in 1..Len(chans) :
            ~chans[id].closed
            => Cardinality({n \in Names : logChannels[n] = id}) = 1)
    /\ [][/\ (RegCall("GetLogChannelWithConfig") /\ rcall'.hit)
              => /\ rcall'.ret = logChannels[rcall'.name]
                 /\ UNCHANGED <<logChannels, chans, chanRecv, bufferSize, alive>>
          /\ (RegCall("GetLogChannelWithConfig") /\ ~rcall'.hit
              /\ alive' = "running")
              => /\ rcall'.ret = logChannels'[rcall'.name]
                 /\ rcall'.ret \notin 1..Len(chans)]_vars

\* A subscribe on a registered name that asked for another capacity than
\* the channel has, while the channel held a record and another
\* subscription existed.
C11_Witness ==
    /\ rcall.op = "GetLogChannelWithConfig"
    /\ rcall.hit
    /\ rcall.size # chans[rcall.ret].cap
    /\ chans[rcall.ret].buf # <<>>
    /\ Cardinality(Registered) = 2

\* C12 (subscribe capacity fallback): a GetLogChannelWithConfig call that
\* creates a channel with BufferSize <= 0 returns a registered channel of
\* the default capacity, and an emission made to it with no consumer is
\* buffered in it.
C12_CapacityFallback ==
    (rcall.op = "GetLogChannelWithConfig" /\ ~rcall.hit /\ rcall.size <= 0)
    => /\ alive = "running"
       /\ rcall.ret # 0
       /\ chans[rcall.ret].cap = DefaultBufferSize
       /\ ((emitted[rcall.ret] # <<>> /\ chanRecv[rcall.ret] = <<>>)
           => chans[rcall.ret].buf # <<>>)

\* What the holder of the handle of channel id has received or can still
\* receive.
Held(id) == chanRecv[id] \o chans[id].buf

\* C13 as claimed (unsubscribe discards): a channel closed by
\* RemoveLogChannel is under no name and its handle delivers nothing more.
C13_UnsubscribeDiscards ==
    \A id \in 1..Len(chans) :
        chans[id].closed
        => /\ \A n \in Names : logChannels[n] # id
           /\ ~ENABLED ChanRecv(id)

\* C13 as amended (unsubscribe closes): a channel closed by RemoveLogChannel
\* is under no name and holds no record of an emission made after the
\* removal; as long as the process runs the records buffered at the removal
\* stay readable through the handle, and the close and the later receives
\* neither drop nor reorder them.
C13_UnsubscribeCloses ==
    /\ [](\A id \in 1..Len(chans) :
            chans[id].closed
            => /\ \A n \in Names : logChannels[n] # id
               /\ \A i \in 1..Len(Held(id)) : Place(Held(id)[i].id) < chans[id].until
               /\ (alive = "running" /\ chans[id].buf # <<>>)
                  => ENABLED ChanRecv(id))
    /\ [][\A id \in 1..Len(chans) :
            chans'[id].closed
            => chanRecv'[id] \o chans'[id].buf = Held(id)]_vars

\* A removed channel that still holds a record, after a later emission has
\* been broadcast.
C13_Witness ==
    \E id \in 1..Len(chans) :
        /\ chans[id].closed
        /\ chans[id].buf # <<>>
        /\ NextRange > chans[id].until
        /\ pc["e1"] = "printf"

\* C14 (unsubscribe idempotence): RemoveLogChannel on a name that is not
\* registered returns normally and leaves the map, every channel, what
\* consumers received and the default capacity unchanged; a RemoveLogChannel
\* that follows a RemoveLogChannel of the same name finds the name
\* unregistered.
C14_UnsubscribeIdempotent ==
    [][/\ (RegCall("RemoveLogChannel") /\ ~rcall'.hit)
          => UNCHANGED <<logChannels, chans, chanRecv, bufferSize, alive,
                         muxVars, destVars, emitVars>>
       /\ (RegCall("RemoveLogChannel") /\ rcall'.again) => ~rcall'.hit]_vars

\* RemoveLogChannel called twice in a row on a name that had been registered,
\* and called on a name never registered while another subscription holds a
\* record.
C14_Witness ==
    \/ /\ rcall.op = "RemoveLogChannel" /\ rcall.again /\ ~rcall.hit
       /\ \E id \in 1..Len(chans) : chans[id].closed /\ chans[id].buf # <<>>
    \/ /\ rcall.op = "RemoveLogChannel" /\ ~rcall.hit
       /\ \A id \in 1..Len(chans) : ~chans[id].closed
       /\ \E id \in 1..Len(chans) : chans[id].buf # <<>>

\* ------------------------------------------------- one emitter, consumers
Increasing(q) == \A i, k \in 1..Len(q) : i < k => q[i].id < q[k].id
Contiguous(q) == \A i \in 1..Len(q) - 1 : q[i + 1].id = q[i].id + 1

\* C15 (per-channel FIFO): with one emitter and consumers receiving at any
\* moment, the records a handle has delivered, followed by the records
\* still queued, are emitted records in strictly increasing emission
\* order: none twice, none out of order.
C15_ChannelFifo ==
    \A id \in 1..Len(chans) :
        /\ Increasing(Held(id))
        /\ \A i \in 1..Len(Held(id)) : Held(id)[i].id \in 1..(nextMsg - 1)

\* A consumer that received while the emitter was dropping: its records
\* have a gap.
C15_Witness ==
    \E id \in 1..Len(chans) :
        /\ phase[id] = "mixed"
        /\ Len(chanRecv[id]) >= 2
        /\ ~Contiguous(chanRecv[id])

\* The emitter has made all its emissions and returned, channel id was
\* registered before the first of them, is still open, and its consumer has
\* drained it.
Drained(id) ==
    /\ nextMsg = MaxMsgs + 1
    /\ \A e \in Emitters : pc[e] = "idle"
    /\ chans[id].since = 1
    /\ ~chans[id].closed
    /\ chans[id].cap >= 1
    /\ chans[id].buf = <<>>

\* C16 as claimed (slow consumer, contiguous suffix): once the emitter has
\* finished and the consumer has drained the queue, the consumer has
\* received a run of consecutive messages that ends at the last one.
C16_ContiguousSuffix ==
    \A id \in 1..Len(chans) :
        Drained(id)
        => /\ Len(chanRecv[id]) \in 1..MaxMsgs
           /\ chanRecv[id][Len(chanRecv[id])].id = MaxMsgs
           /\ Contiguous(chanRecv[id])

\* C16 as amended (slow consumer, gaps allowed): once the emitter has
\* finished and the consumer has drained the queue, the consumer has
\* received at least one and at most all of the messages, in strictly
\* increasing order; the run may have gaps and need not end at the last
\* message.
C16_IncreasingSubsequence ==
    \A id \in 1..Len(chans) :
        Drained(id)
        => /\ Len(chanRecv[id]) \in 1..MaxMsgs
           /\ Increasing(chanRecv[id])
           /\ \A i \in 1..Len(chanRecv[id]) : chanRecv[id][i].id \in 1..MaxMsgs

\* A drained capacity-1 subscription whose consumer got the first and the
\* last message and not the one between.
C16_Witness ==
    \E id \in 1..Len(chans) :
        /\ Drained(id)
        /\ chans[id].cap = 1
        /\ Ids(chanRecv[id]) = <<1, MaxMsgs>>

\* The emitter has dropped nothing from channel id.
NoOverflow(id) == Len(Held(id)) >= Len(emitted[id])
                  /\ \A e \in Emitters : pc[e] \in {"drop", "retry"}
                                          => logChannels[curName[e]] # id
\* The emission in progress has not come to channel id yet.
NotVisited(id) == \E e \in Emitters : InBroadcast(e)
                     /\ \E n \in todo[e] : logChannels[n] = id
\* The emissions whose broadcast began while channel id was registered, in
\* the order in which the broadcasts began.
Due(id) ==
    LET end == (IF chans[id].closed THEN chans[id].until ELSE NextRange)
               - (IF NotVisited(id) THEN 1 ELSE 0)
    IN [i \in 1..(end - chans[id].since) |->
          CHOOSE m \in Began : Place(m) = chans[id].since + i - 1]

\* C17 (fan-out to every subscription): a subscription that has not
\* overflowed holds or has delivered exactly one record of every emission
\* made while it was registered, in emission order, and any two
\* subscriptions hold the same record of an emission.
C17_FanOut ==
    /\ \A id \in 1..Len(chans) : NoOverflow(id) => Ids(Held(id)) = Due(id)
    /\ \A a, b \in 1..Len(chans) : SameContent(Held(a), Held(b))

\* Two subscriptions that both got two emissions without overflow, one of
\* them read by its consumer.
C17_Witness ==
    \E a, b \in 1..Len(chans) :
        /\ a # b
        /\ NoOverflow(a) /\ NoOverflow(b)
        /\ ~chans[a].closed /\ ~chans[b].closed
        /\ Len(chanRecv[a]) = 2
        /\ Len(chans[b].buf) = 2
        /\ Held(a) = Held(b)

\* ----------------------------------------------------------------- levels
\* Every record a subscription holds or has delivered.
Records == UNION {Range(Held(id)) : id \in 1..Len(chans)}
\* Every line a destination holds.
Lines == Range(console) \cup UNION {Range(sinkLog[s]) : s \in Sinks}

\* C18 (stack-trace asymmetry in records): a record broadcast by Debug,
\* Warn, Error or Fatal carries stack data, a record broadcast by Info
\* carries none.
C18_StackInRecords ==
    \A r \in Records :
        /\ r.level \in {LevelDebug, LevelInfo, LevelWarn, LevelError, LevelFatal}
        /\ r.stack <=> r.level # LevelInfo

\* A subscription that got an INFO record and a DEBUG record.
C18_Witness ==
    \E id \in 1..Len(chans) :
        {r.level : r \in Range(Held(id))} = {LevelInfo, LevelDebug}

\* C19 as claimed (stack trace in the text of every level but INFO): the
\* text of a DEBUG, WARN, ERROR or FATAL line is followed by the stack
\* trace, the text of an INFO line is not.
C19_TraceInText ==
    \A l \in Lines : l.trace <=> l.level # LevelInfo

\* C19 as amended (stack trace in the text of ERROR and FATAL): the text of
\* an ERROR or FATAL line is followed by the stack trace, the text of a
\* DEBUG, INFO or WARN line is the formatted line only.
C19_TraceForErrorFatal ==
    \A l \in Lines : l.trace <=> l.level \in {LevelError, LevelFatal}

\* The console holds a WARN line and an ERROR line.
C19_Witness ==
    {l.level : l \in Range(console)} = {LevelWarn, LevelError}

\* The emissions whose broadcast began while channel id was registered.
Span(id) == {m \in Began :
                /\ chans[id].since <= Place(m)
                /\ chans[id].closed => Place(m) < chans[id].until}

\* C20 (FATAL is terminal): the process exits only through a Fatal call
\* whose broadcast has visited every subscription registered at the call
\* and whose write has returned with the line on the console; after the
\* exit no variable changes any more: no emission, broadcast, write or
\* receive takes place.
C20_FatalTerminal ==
    /\ [](alive = "exited"
          => \E e \in Emitters :
                /\ pc[e] = "exit"
                /\ cur[e].entry.level = LevelFatal
                /\ hist[cur[e].entry.id].returned
                /\ InSeq(console, cur[e].entry.id)
                /\ \A id \in 1..Len(chans) :
                      cur[e].entry.id \in Span(id)
                      => cur[e].entry.id \in Range(emitted[id]))
    /\ [][alive = "running"]_vars
    /\ [](\A e \in Emitters :
            (pc[e] = "exit" /\ alive = "running") => ENABLED Exit(e))

\* The process has exited while the other emitter was in the middle of an
\* emission and a subscription held the FATAL record.
C20_Witness ==
    /\ alive = "exited"
    /\ \E o \in Emitters : pc[o] \in {"bcast", "drop", "retry", "printf",
                                      "lock", "write"}
    /\ \E r \in Records : r.level = LevelFatal

\* C21 (custom-sink reconfiguration): a write that begins while no
\* configuration call is in progress goes to the custom writer of the last
\* SetOutput and to no other custom writer; a custom writer only ever gains
\* lines, and only lines of writes that began while it was the target; and a
\* write that has returned with no target rejecting it and no mirror closed
\* under it has reached every target of the set it began with.
C21_Reconfiguration ==
    /\ [](\A s \in Sinks : \A i \in 1..Len(sinkLog[s]) :
            CustomTarget(s) \in Range(hist[sinkLog[s][i].id].targets))
    /\ [](\A m \in Returned :
            (~hist[m].rejected /\ ~hist[m].cut)
            => \A t \in Range(hist[m].targets) : Delivered(m, t))
    /\ [][/\ \A s \in Sinks :
               /\ Len(sinkLog'[s]) >= Len(sinkLog[s])
               /\ SubSeq(sinkLog'[s], 1, Len(sinkLog[s])) = sinkLog[s]
          /\ \A e \in Emitters :
               (pc[e] = "lock" /\ pc'[e] = "write" /\ writerMutex = "free")
               => \A s \in Sinks :
                    CustomTarget(s) \in Range(wt'[e]) <=> s = customWriter]_vars

\* After SetOutput(1), a line, SetOutput(2) and a second line: the first
\* writer holds the first line only and the second the second line only.
C21_Witness ==
    \E s1, s2 \in Sinks :
        /\ s1 # s2
        /\ customWriter = s2
        /\ writerMutex = "free"
        /\ Ids(sinkLog[s1]) = <<1>>
        /\ Ids(sinkLog[s2]) = <<2>>
        /\ hist[1].returned /\ hist[2].returned

\* The targets the configuration asks for: the console, the custom writer
\* when one is configured, the writer of the mirror when one is active.
C22_Configured ==
    {ConsoleTarget}
    \cup (IF customWriter # 0 THEN {CustomTarget(customWriter)} ELSE {})
    \cup (IF activeReader # 0 THEN {PipeTarget(activeReader)} ELSE {})

\* C22 (target-set invariant): the writer of the logger always has the
\* console as its first target, and whenever every SetOutput, GetReaderCopy
\* and RemoveReaderCopy call has returned its targets are, each once, the
\* console, the custom writer exactly when one is configured and the mirror
\* writer exactly when a mirror is active.
C22_TargetSet ==
    /\ Len(loggerOut) >= 1 /\ loggerOut[1] = ConsoleTarget
    /\ Len(multiWriter) >= 1 /\ multiWriter[1] = ConsoleTarget
    /\ writerMutex = "free"
       => /\ Range(loggerOut) = C22_Configured
          /\ Len(loggerOut) = Cardinality(C22_Configured)
          /\ multiWriter = loggerOut

\* After SetOutput, GetReaderCopy and RemoveReaderCopy: console and custom
\* writer are the targets, the mirror is gone.
C22_Witness ==
    /\ writerMutex = "free"
    /\ ncfg = MaxCfgOps
    /\ Len(pipes) = 1 /\ pipes[1].gone = "released"
    /\ customWriter # 0
    /\ Len(loggerOut) = 2

\* C23 (at most one mirror active): of the pipes made by GetReaderCopy at
\* most one is open, it is the one activeReader names, every other one is
\* closed, and the writer of the logger has at most one pipe among its
\* targets.
C23_OneMirror ==
    /\ \A g \in 1..Len(pipes) : g # activeReader => pipes[g].closed
    /\ Cardinality({g \in 1..Len(pipes) : ~pipes[g].closed}) <= 1
    /\ Cardinality({i \in 1..Len(loggerOut) : loggerOut[i].kind = "pipe"}) <= 1
    /\ \A g \in 1..Len(pipes) :
        (~pipes[g].closed /\ pipes[g].installed)
        => PipeTarget(g) \in Range(loggerOut)

\* A second GetReaderCopy has returned: its stream is open and installed,
\* the first one is closed.
C23_Witness ==
    /\ Len(pipes) = 2
    /\ pipes[1].closed
    /\ ~pipes[2].closed /\ pipes[2].installed
    /\ PipeTarget(2) \in Range(loggerOut)
    /\ PipeTarget(1) \notin Range(loggerOut)

\* The locks goroutine p holds: writerMutex from the Lock of a configuration
\* call to its deferred Unlock, the mutex of the log.Logger for the whole
\* write, channelsMutex (shared) inside broadcastToChannels.
C24_Holds(p) ==
    (IF writerMutex = p THEN {"writerMutex"} ELSE {})
    \cup (IF outMu = p THEN {"logger"} ELSE {})
    \cup (IF p \in Emitters /\ InBroadcast(p) THEN {"channelsMutex"} ELSE {})
\* The lock the next step of goroutine p acquires.
C24_Acquires(p) ==
    IF p \in Cfgs /\ cpc[p] = "setOutput" THEN "logger"
    ELSE IF p \in Emitters /\ pc[p] = "lock" THEN "logger"
    ELSE "none"

\* C24 (lock discipline): no goroutine holds two of writerMutex,
\* channelsMutex and the logger's mutex at once, and none is about to
\* acquire one of them while it holds another.
C24_OneLockAtATime ==
    \A p \in Cfgs \cup Emitters :
        /\ Cardinality(C24_Holds(p)) <= 1
        /\ C24_Acquires(p) # "none" => C24_Holds(p) = {}

\* C25 (configuration state is lock-protected): no emission reads
\* productName while a SetProductName is between the two stores of its
\* assignment, two SetProductName calls never interleave their stores (so
\* that productName is one of the names set whenever no store is pending),
\* and the capacity GetLogChannel gives a new channel is the value
\* bufferSize has when the channel is made.
C25_LockProtected ==
    /\ [](\A e \in Emitters :
            pc[e] \notin Words
            => cur[e].entry.prefix.ptr = cur[e].entry.prefix.len)
    /\ []((\A s \in Setters : npc[s] \notin Words)
          => productName.ptr = productName.len)
    /\ [][(gcall # NoGet /\ gcall' = NoGet /\ Len(chans') = Len(chans) + 1)
          => chans'[Len(chans')].cap = bufferSize]_vars

\* C26 (capacity fixed and respected): a channel never holds more records
\* than its capacity; no step changes the capacity of a channel that exists
\* or takes a channel away; SetChannelBufferSize changes bufferSize and no
\* channel; GetLogChannel reads bufferSize as it is when it is called and a
\* channel it makes has the capacity it read.
C26_CapacityFixed ==
    /\ [](\A id \in 1..Len(chans) : Len(chans[id].buf) <= chans[id].cap)
    /\ [][/\ Len(chans') >= Len(chans)
          /\ \A id \in 1..Len(chans) : chans'[id].cap = chans[id].cap
          /\ RegCall("SetChannelBufferSize")
             => /\ UNCHANGED <<chans, logChannels>>
                /\ bufferSize' = NormalSize(rcall'.size)
          /\ (gcall = NoGet /\ gcall' # NoGet) => gcall'.size = bufferSize
          /\ (gcall # NoGet /\ gcall' = NoGet /\ Len(chans') = Len(chans) + 1)
             => chans'[Len(chans')].cap = gcall.size]_vars

\* A full channel that lost a record to an overflow, after bufferSize was
\* set to another value than its capacity and a second subscribe on its
\* name asked for another capacity.
C26_Witness ==
    \E id \in 1..Len(chans) :
        /\ chans[id].cap >= 1
        /\ Len(chans[id].buf) = chans[id].cap
        /\ Len(emitted[id]) > chans[id].cap
        /\ bufferSize \notin {chans[id].cap, DefaultBufferSize}
        /\ rcall.op = "GetLogChannelWithConfig"
        /\ rcall.hit /\ rcall.ret = id
        /\ rcall.size # chans[id].cap

\* C27 (in-flight writes at mirror release): a write to the mirror that
\* began on the open pipe has handed its whole line to the consumer when it
\* returns, and a consumer that has seen end-of-stream has read whole lines
\* only.
C27_InFlightComplete ==
    /\ [](\A g \in 1..Len(pipes) :
            pipeEOF[g] => Len(pipeRead[g]) % LineLen = 0)
    /\ [][\A e \in Emitters :
            (pc[e] = "pipe" /\ pc'[e] # "pipe")
            => Delivered(cur[e].line.id, wt[e][wi[e]])]_vars

\* The emissions whose record channel id was handed or holds.
C28_Placed(id) ==
    Range(Ids(chans[id].buf)) \cup Range(Ids(chanRecv[id]))
    \cup Range(emitted[id])

\* C28 (unsubscribe cancellation): a channel that RemoveLogChannel removed
\* is closed and registered under no name, no broadcast that began after the
\* removal visits it or places a record in it, and its buffer never grows
\* again; a subscribe that finds its name unregistered makes a channel that
\* did not exist before, open and empty, and leaves every removed channel
\* as it is.
C28_Cancellation ==
    /\ [](\A id \in 1..Len(chans) :
            chans[id].until # 0
            => /\ chans[id].closed
               /\ \A n \in Names : logChannels[n] # id
               /\ \A m \in C28_Placed(id) : Place(m) < chans[id].until)
    /\ [][/\ \A id \in 1..Len(chans) :
               chans[id].closed
               => /\ chans'[id].closed
                  /\ Len(chans'[id].buf) <= Len(chans[id].buf)
          /\ (RegCall("RemoveLogChannel") /\ rcall'.hit)
             => /\ logChannels'[rcall'.name] = 0
                /\ chans'[logChannels[rcall'.name]].closed
                /\ chans'[logChannels[rcall'.name]].until = NextRange
          /\ (RegCall("GetLogChannelWithConfig") /\ ~rcall'.hit
              /\ alive' = "running")
             => /\ logChannels'[rcall'.name] = Len(chans) + 1
                /\ Len(chans') = Len(chans) + 1
                /\ chans'[Len(chans) + 1].buf = <<>>
                /\ ~chans'[Len(chans) + 1].closed
                /\ chanRecv'[Len(chans) + 1] = <<>>
                /\ \A id \in 1..Len(chans) : chans'[id] = chans[id]]_vars

\* A name was subscribed, received a record, was removed while the record
\* was buffered, and was subscribed again; an emission made after that is in
\* the new channel and not in the removed one.
C28_Witness ==
    \E old, new \in 1..Len(chans) :
        /\ old # new
        /\ chans[old].name = chans[new].name
        /\ chans[old].closed /\ chans[old].until # 0
        /\ chans[old].buf # <<>>
        /\ logChannels[chans[new].name] = new
        /\ \E m \in Range(Ids(chans[new].buf)) : Place(m) >= chans[old].until

\* Emitter e gives its record up for the channel it is visiting: it goes on
\* with the broadcast and the record is not in the buffer.
C29_GivesUp(e) ==
    /\ pc[e] \in {"drop", "retry"}
    /\ pc'[e] = "bcast"
    /\ ~InSeq(chans'[logChannels[curName[e]]].buf, cur[e].entry.id)

\* C29 (overflow anomaly rule): a broadcast gives a record up for a channel
\* only when the drop of the oldest record fails and the channel has no room
\* for the record either; otherwise the record is in the buffer when the
\* broadcast goes on with the next channel.
C29_AnomalyRule ==
    [][\A e \in Emitters :
         C29_GivesUp(e)
         => /\ pc[e] = "drop"
            /\ ~CanRecv(chans[logChannels[curName[e]]])
            /\ ~CanSend(chans[logChannels[curName[e]]])]_vars

\* C30 (overflow containment): the step in which a broadcast gives a record
\* up changes no other channel, nothing written and nothing of the process,
\* and leaves the channels still to visit as they were; an emitter that is
\* handling an overflow always comes to the end of its emission; every
\* emission that has returned has visited every channel registered during
\* it and has its line on the console; and the process keeps running.
C30_Containment ==
    /\ [](alive = "running")
    /\ [](\A m \in Returned :
            /\ InSeq(console, m)
            /\ \A id \in 1..Len(chans) :
                 m \in Span(id) => m \in Range(emitted[id]))
    /\ [][\A e \in Emitters :
            C29_GivesUp(e)
            => /\ todo'[e] = todo[e]
               /\ \A id \in 1..Len(chans) : chans'[id] = chans[id]
               /\ UNCHANGED <<logChannels, chanRecv, destVars, muxVars, alive>>]_vars
    /\ \A e \in Emitters : (pc[e] \in {"drop", "retry"}) ~> (pc[e] = "idle")

\* Two emissions were made; the second was given up for one channel (no
\* later emission can have evicted it), is held by the other channel, is on
\* the console, and its call has returned.
C30_Witness ==
    \E ida, idb \in 1..Len(chans) :
        /\ ida # idb
        /\ nextMsg = 3
        /\ hist[2].returned
        /\ InSeq(console, 2)
        /\ 2 \in Range(emitted[ida])
        /\ ~InSeq(Held(ida), 2)
        /\ InSeq(Held(idb), 2)

\* C31 (emission pipeline order): while an emitter is inside
\* broadcastToChannels no target has anything of its line and its write has
\* not begun; from the moment it calls Printf until its write returns, also
\* while it is blocked in the write to the mirror, its broadcast has visited
\* every channel registered during the emission, and every such channel
\* that has lost no record holds its record or has handed it to the
\* consumer.
C31_BroadcastBeforeWrite ==
    \A e \in Emitters :
        LET m == cur[e].entry.id IN
        /\ InBroadcast(e)
           => /\ hist[m].targets = <<>>
              /\ \A p \in DestLogs : ~InSeq(p, m)
              /\ outMu # e
        /\ pc[e] \in {"printf", "lock", "write", "pipe"}
           => /\ todo[e] = {}
              /\ \A id \in 1..Len(chans) :
                   m \in Span(id)
                   => /\ m \in Range(emitted[id])
                      /\ NoOverflow(id) => InSeq(Held(id), m)

\* An emitter is blocked in the write to a mirror nobody has read from, and
\* its record is in the subscription.
C31_Witness ==
    \E e \in Emitters, id \in 1..Len(chans) :
        /\ pc[e] = "pipe"
        /\ rem[e] = LineLen
        /\ ~pipes[wt[e][wi[e]].id].closed
        /\ InSeq(chans[id].buf, cur[e].entry.id)

\* C32 (no send on a closed channel): every channel an emitter inside
\* broadcastToChannels has still to visit, or is visiting, is registered and
\* open; and the process never panics in a step of a broadcast (the only
\* panic is make with a negative size).
C32_NoSendOnClosed ==
    /\ [](\A e \in Emitters :
            /\ InBroadcast(e)
               => \A n \in todo[e] :
                    /\ logChannels[n] # 0
                    /\ ~chans[logChannels[n]].closed
            /\ pc[e] \in {"drop", "retry"}
               => /\ logChannels[curName[e]] # 0
                  /\ ~chans[logChannels[curName[e]]].closed)
    /\ [][alive' = "panicked"
          => /\ nreg' = nreg + 1
             /\ rcall'.size < 0
             /\ UNCHANGED <<pc, todo, chans>>]_vars

\* Both emitters are inside a broadcast begun after a channel was removed
\* and closed, one of them in the overflow handling of another channel.
C32_Witness ==
    /\ alive = "running"
    /\ \E id \in 1..Len(chans) :
        /\ chans[id].closed
        /\ \A e \in Emitters :
            /\ InBroadcast(e)
            /\ Place(cur[e].entry.id) >= chans[id].until
    /\ \E e \in Emitters : pc[e] = "retry"

\* Emitter e is blocked in the write to an open mirror: not every byte of
\* its line has been read.
C33_Blocked(e) ==
    /\ pc[e] = "pipe"
    /\ rem[e] > 0
    /\ ~pipes[wt[e][wi[e]].id].closed

\* C33 (release always terminates): no configuration call holds writerMutex
\* and waits for the logger's mutex while the emitter that holds that mutex
\* is blocked in the write to the mirror, so that RemoveReaderCopy can
\* always take writerMutex and close the pipe.
C33_ReleaseTerminates ==
    \A c \in Cfgs, e \in Emitters :
        ~(/\ cpc[c] = "setOutput"
          /\ writerMutex = c
          /\ outMu = e
          /\ C33_Blocked(e))

\* The last emission that finished its visit of channel id.
C34_LastVisit(id) == emitted[id][Len(emitted[id])]

\* C34 as claimed (concurrent emitters without a consumer): no broadcast
\* gives its record up, every visit takes at most one record out, and a
\* channel nobody is in the overflow handling of holds min(K, visits)
\* records.
C34_NoGiveUp ==
    /\ [](\A id \in 1..Len(chans) :
            ~MidVisit(id)
            => Len(chans[id].buf) >= Min(chans[id].cap, Len(emitted[id])))
    /\ [][/\ \A e \in Emitters : ~C29_GivesUp(e)
          /\ \A id \in 1..Len(chans) :
               Len(chans'[id].buf) >= Len(chans[id].buf) - 1]_vars

\* C34 (concurrent emitters without a consumer, amended): a broadcast may
\* give its record up, but only on a channel that broadcasts have visited
\* concurrently, and only when another emitter has taken the room the drop
\* made (channel full at the retry) or has emptied the channel (nothing to
\* drop); a record that was enqueued leaves the queue only by a drop;
\* every step takes at most one record out of a channel; and a channel
\* nobody is in the overflow handling of holds min(K, visits) records.
C34_BoundedLoss ==
    /\ [](\A id \in 1..Len(chans) :
            ~MidVisit(id)
            => Len(chans[id].buf) >= Min(chans[id].cap, Len(emitted[id])))
    /\ [][/\ \A e \in Emitters :
               C29_GivesUp(e)
               => LET c == chans[logChannels[curName[e]]] IN
                  /\ phase[logChannels[curName[e]]] = "mixed"
                  /\ \/ pc[e] = "retry" /\ Len(c.buf) = c.cap
                     \/ pc[e] = "drop" /\ Len(c.buf) = 0
          /\ \A id \in 1..Len(chans) :
               /\ Len(chans'[id].buf) >= Len(chans[id].buf) - 1
               /\ Len(chans'[id].buf) < Len(chans[id].buf)
                  => \E e \in Emitters : pc[e] = "drop" /\ pc'[e] = "retry"]_vars

\* Nobody is inside a broadcast, a capacity-1 channel was visited by three
\* emissions, and the record of the last one to finish its visit is not in
\* the queue: it was given up.
C34_Witness ==
    \E id \in 1..Len(chans) :
        /\ \A e \in Emitters : ~InBroadcast(e)
        /\ chans[id].cap = 1
        /\ Len(emitted[id]) = 3
        /\ ~InSeq(chans[id].buf, C34_LastVisit(id))
        /\ Len(chans[id].buf) = 1

\* C35 (a mirror implies a custom sink): whenever a mirror is active a
\* custom writer is configured, and the writer of the logger never has a
\* pipe among its targets without a custom writer among them.
C35_MirrorImpliesCustom ==
    /\ activeReader # 0 => customWriter # 0
    /\ (\E i \in 1..Len(loggerOut) : loggerOut[i].kind = "pipe")
       => \E i \in 1..Len(loggerOut) : loggerOut[i].kind = "custom"

====
